---------------------------- MODULE Spec2Model ----------------------------
(***************************************************************************)
(* Model of the prefix-search assignment: the query/evaluation client      *)
(* (search_engine.py) and the index provisioner (setup_elasticsearch.py),  *)
(* both running against an OpenSearch service reached over HTTP.           *)
(*                                                                         *)
(* Python strings are sequences of one-character strings, so that joins,   *)
(* escapes and separators can be counted.  Python/JSON values are records  *)
(* [t, s, l]: t the type tag, s the characters of a str, l the items of a  *)
(* list or the entries [k, v] of a dict (in insertion order).              *)
(***************************************************************************)
EXTENDS Integers, Sequences, FiniteSets, TLC

\* ------------------------------------------------------------------ bounds
MaxRows == 2
MaxHits == 4
MaxDelay == 1
MaxProducts == 2
MaxRuns == 2

\* ------------------------------------------------------- program constants
TopK == 3
MaxAttempts == 120
SleepSeconds == 5

\* ------------------------------------------------------------ Python values
PyNone == [t |-> "none", s |-> <<>>, l |-> <<>>]
PyStr(chars) == [t |-> "str", s |-> chars, l |-> <<>>]
PyList(items) == [t |-> "list", s |-> <<>>, l |-> items]
PyDict(entries) == [t |-> "dict", s |-> <<>>, l |-> entries]
Entry(key, val) == [k |-> key, v |-> val]

SeqUpTo(S, n) == UNION {[1..m -> S] : m \in 0..n}

\* dict.get(key, default): the value of the first entry with this key.
DictGet(d, key, default) ==
    IF \E j \in 1..Len(d.l) : d.l[j].k = key
    THEN d.l[CHOOSE j \in 1..Len(d.l) : d.l[j].k = key].v
    ELSE default

\* d[key] = val: an existing key keeps its place, a new key goes last.
DictSet(d, key, val) ==
    IF \E j \in 1..Len(d.l) : d.l[j].k = key
    THEN PyDict([j \in 1..Len(d.l) |->
                    IF d.l[j].k = key THEN Entry(key, val) ELSE d.l[j]])
    ELSE PyDict(Append(d.l, Entry(key, val)))

\* What "for x in v" yields: the items of a list, the keys of a dict, the
\* characters of a str.  None is not iterable.
Iterable(v) == v.t \in {"list", "dict", "str"}

IterItems(v) ==
    CASE v.t = "list" -> v.l
      [] v.t = "dict" -> [j \in 1..Len(v.l) |-> PyStr(<<v.l[j].k>>)]
      [] v.t = "str"  -> [j \in 1..Len(v.s) |-> PyStr(<<v.s[j]>>)]
      [] OTHER        -> <<>>

\* sep.join(strs) on character sequences.
RECURSIVE Join(_, _)
Join(strs, sep) ==
    IF strs = <<>> THEN <<>>
    ELSE IF Len(strs) = 1 THEN strs[1]
    ELSE strs[1] \o sep \o Join(Tail(strs), sep)

\* ------------------------------------------------ the search service's replies
\* The outcome of one requests call: a network-level failure (a
\* requests.exceptions.RequestException), or an HTTP status with a body.
NotJson == [t |-> "notjson", s |-> <<>>, l |-> <<>>]
NetErr == [kind |-> "neterr", status |-> 0, body |-> NotJson]
Http(status, body) == [kind |-> "http", status |-> status, body |-> body]

\* The hits a _search response may carry: a hit that is not an object, a hit
\* with no _source, a hit whose _source has a null name (a catalog product
\* with an empty name element is indexed that way), a hit with a name.
HitNotDict == PyStr(<<"x">>)
HitNoSource == PyDict(<<>>)
HitNullName == PyDict(<<Entry("_source", PyDict(<<Entry("name", PyNone)>>))>>)
HitNamed == PyDict(<<Entry("_source", PyDict(<<Entry("name", PyStr(<<"a">>))>>))>>)
HitValues == {HitNoSource, HitNamed}

HitsBody(hs) == PyDict(<<Entry("hits", PyDict(<<Entry("hits", PyList(hs))>>))>>)

MalformedBodies ==
    { PyList(<<>>),
      PyDict(<<>>),
      PyDict(<<Entry("hits", PyNone)>>),
      PyDict(<<Entry("hits", PyDict(<<>>))>>),
      PyDict(<<Entry("hits", PyDict(<<Entry("hits", PyNone)>>))>>),
      PyDict(<<Entry("hits", PyDict(<<Entry("hits", PyStr(<<"x">>))>>))>>),
      HitsBody(<<HitNotDict>>),
      HitsBody(<<HitNamed, HitNotDict>>) }

NullNameBodies == {HitsBody(<<HitNullName>>), HitsBody(<<HitNamed, HitNullName>>)}

Bodies == {NotJson} \cup MalformedBodies \cup NullNameBodies
            \cup {HitsBody(hs) : hs \in SeqUpTo(HitValues, MaxHits)}

SearchReplies == {NetErr} \cup {Http(st, NotJson) : st \in {404, 503}}
                    \cup {Http(200, b) : b \in Bodies}

\* ------------------------------------------- ElasticsearchSearchEngine.search
\* response.raise_for_status(): raises HTTPError for a 4xx or 5xx status.
RaisesForStatus(status) == status >= 400 /\ status < 600

Ok(val) == [ok |-> TRUE, val |-> val, exc |-> ""]
Raise(exc) == [ok |-> FALSE, val |-> <<>>, exc |-> exc]

\* The body of the try block: the products list, or the exception raised.
SearchTry(prefix, top_k, reply) ==
    IF reply.kind = "neterr" THEN Raise("RequestException")
    ELSE IF RaisesForStatus(reply.status) THEN Raise("RequestException")
    ELSE IF reply.body.t = "notjson" THEN Raise("RequestException")
    ELSE LET results == reply.body IN
      IF results.t # "dict" THEN Raise("AttributeError")
      ELSE LET outer == DictGet(results, "hits", PyDict(<<>>)) IN
        IF outer.t # "dict" THEN Raise("AttributeError")
        ELSE LET hits == DictGet(outer, "hits", PyList(<<>>)) IN
          IF ~Iterable(hits) THEN Raise("TypeError")
          ELSE LET items == IterItems(hits) IN
            IF \E j \in 1..Len(items) : items[j].t # "dict"
            THEN Raise("AttributeError")
            ELSE Ok([j \in 1..Len(items) |-> DictGet(items[j], "_source", PyNone)])

\* Mutation of search: no except clause for RequestException.
SearchUncaught(prefix, top_k, reply) ==
    LET r == SearchTry(prefix, top_k, reply)
    IN  IF r.exc = "RequestException" THEN r ELSE Ok(r.val)

\* search(): both except clauses log the error and return [].
Search(prefix, top_k, reply) ==
    LET r == SearchTry(prefix, top_k, reply)
    IN  IF r.ok THEN r ELSE Ok(<<>>)


\* ------------------------------------------------------------ run_evaluation
\* The rows csv.DictReader can yield from the query file.
RowValues ==
    { [query |-> <<"p", "h">>, site |-> <<"x">>, type |-> <<"t">>, notes |-> <<>>],
      [query |-> <<"m">>, site |-> <<"y">>, type |-> <<"u">>, notes |-> <<"n">>] }

NoRow == [query |-> <<>>, site |-> <<>>, type |-> <<>>, notes |-> <<>>]

fieldnames == <<"query", "site", "type", "notes", "top_3", "top_3_score",
                "latency_ms", "judgement">>

UnknownName == PyStr(<<"u", "n", "k", "n", "o", "w", "n", "_", "n", "a", "m", "e">>)

DigitChars == <<"0", "1", "2", "3", "4", "5", "6", "7", "8", "9">>
Digit(n) == DigitChars[n + 1]

RECURSIVE Digits(_)
Digits(n) == IF n < 10 THEN <<Digit(n)>> ELSE Digits(n \div 10) \o <<Digit(n % 10)>>

Abs(n) == IF n < 0 THEN 0 - n ELSE n

\* f"{latency_ms:.2f}" of a latency of h hundredths of a millisecond.
Format2f(h) ==
    (IF h < 0 THEN <<"-">> ELSE <<>>)
        \o Digits(Abs(h) \div 100) \o <<".">>
        \o <<Digit((Abs(h) \div 10) % 10), Digit(Abs(h) % 10)>>

\* (end_time - start_time) * 1000, in hundredths of a millisecond: the
\* clock of the model counts ticks of 10 microseconds.
Latency(start, end) == end - start

\* [prod.get('name', 'unknown_name') for prod in results], then "|".join:
\* a prod that is no dict has no .get, a name that is no str cannot be joined.
TopIds(res) ==
    IF \E j \in 1..Len(res) : res[j].t # "dict" THEN Raise("AttributeError")
    ELSE LET names == [j \in 1..Len(res) |-> DictGet(res[j], "name", UnknownName)] IN
      IF \E j \in 1..Len(names) : names[j].t # "str" THEN Raise("TypeError")
      ELSE Ok(Join([j \in 1..Len(names) |-> names[j].s], <<"|">>))

\* Mutation of the scores: the field is left blank.
TopScoresBlank(res) == <<>>

\* "|".join([""] * len(results))
TopScores(res) == Join([j \in 1..Len(res) |-> <<>>], <<"|">>)

\* The dict handed to writer.writerow.
OutRow(r, ids, scores, latency) ==
    [query |-> r.query, site |-> r.site, type |-> r.type, notes |-> r.notes,
     top_3 |-> ids, top_3_score |-> scores, latency_ms |-> latency,
     judgement |-> <<>>]

VARIABLES pc, header, f_in, f_out, calls, row, results, now, start_time,
          end_time, exc

evalVars == <<pc, header, f_in, f_out, calls, row, results, now, start_time,
              end_time, exc>>

VARIABLES prefix, top_k, response, products, spc

searchVars == <<prefix, top_k, response, products, spc>>

VARIABLES ppc, polls, slept, last_poll, waited, index_exists, created, catalog,
          bulk_actions, loaded, reqs, errors, exit_status, runs, create_log

provVars == <<ppc, polls, slept, last_poll, waited, index_exists, created,
              catalog, bulk_actions, loaded, reqs, errors, exit_status, runs,
              create_log>>

vars == <<evalVars, searchVars, provVars>>

EvalInit ==
    /\ pc = "start"
    /\ header = <<>>
    /\ f_in = <<>>
    /\ f_out = <<>>
    /\ calls = <<>>
    /\ row = NoRow
    /\ results = <<>>
    /\ now = 0
    /\ start_time = 0
    /\ end_time = 0
    /\ exc = ""

\* Both files are opened and the header is written before the first row.
OpenFiles ==
    /\ pc = "start"
    /\ header' = fieldnames
    /\ pc' = "loop"
    /\ UNCHANGED <<f_in, f_out, calls, row, results, now, start_time, end_time, exc>>
    /\ UNCHANGED <<searchVars, provVars>>

\* One pass of "for row in reader": the reader yields the next row, the
\* search is timed, the output row is written.  An exception raised by the
\* search or by the joins leaves the loop and the function.
Iteration ==
    /\ pc = "loop"
    /\ Len(f_in) < MaxRows
    /\ \E r \in RowValues, reply \in SearchReplies, d \in 0..MaxDelay :
         LET found == Search(r.query, TopK, reply)
             ids == TopIds(found.val)
             call == [prefix |-> r.query, top_k |-> TopK,
                      neterr |-> reply.kind = "neterr",
                      returned |-> IF found.ok THEN Len(found.val) ELSE 0]
         IN  /\ row' = r
             /\ f_in' = Append(f_in, r)
             /\ calls' = Append(calls, call)
             /\ start_time' = now
             /\ now' = now + d
             /\ IF ~found.ok
                THEN /\ pc' = "raised"
                     /\ exc' = found.exc
                     /\ UNCHANGED <<results, end_time, f_out>>
                ELSE /\ results' = found.val
                     /\ end_time' = now + d
                     /\ IF ~ids.ok
                        THEN /\ pc' = "raised"
                             /\ exc' = ids.exc
                             /\ UNCHANGED f_out
                        ELSE /\ f_out' = Append(f_out,
                                    OutRow(r, ids.val, TopScores(found.val),
                                           Format2f(Latency(now, now + d))))
                             /\ UNCHANGED <<pc, exc>>
    /\ UNCHANGED header
    /\ UNCHANGED <<searchVars, provVars>>

\* The reader is exhausted: the files are closed and the function returns.
EndOfFile ==
    /\ pc = "loop"
    /\ pc' = "done"
    /\ UNCHANGED <<header, f_in, f_out, calls, row, results, now, start_time,
                   end_time, exc>>
    /\ UNCHANGED <<searchVars, provVars>>


\* ---------------------------------------------------------- search, on its own


Prefixes == {<<"p", "h">>, <<>>}
TopKs == {TopK, 10}

SearchInit ==
    /\ prefix \in Prefixes
    /\ top_k \in TopKs
    /\ response \in SearchReplies
    /\ products = <<>>
    /\ spc = "call"

SearchIdle ==
    /\ prefix = <<>>
    /\ top_k = TopK
    /\ response = NetErr
    /\ products = <<>>
    /\ spc = "idle"

\* One call of search(prefix, top_k) that the service answers with response.
SearchCall ==
    /\ spc = "call"
    /\ LET r == Search(prefix, top_k, response)
       IN  IF r.ok
           THEN products' = r.val /\ spc' = "returned"
           ELSE products' = products /\ spc' = "raised"
    /\ UNCHANGED <<prefix, top_k, response>>
    /\ UNCHANGED <<evalVars, provVars>>

\* ------------------------------------------------------------- the catalog file
NAME == <<"n", "a", "m", "e">>
PRICE == <<"p", "r", "i", "c", "e">>
PRODUCT == <<"p", "r", "o", "d", "u", "c", "t">>
OPENSEARCH_INDEX_NAME == <<"c", "a", "t", "a", "l", "o", "g", "_", "p", "r", "o", "d", "u", "c", "t", "s">>

Child(tag, text) == [tag |-> tag, text |-> text]
Element(tag, children) == [tag |-> tag, children |-> children]

\* The elements the root of a well-formed catalog may hold: products with no
\* child, one child, two children (a text with a newline, an empty element),
\* a repeated tag, and an element that is no product.
RootElems ==
    { Element(PRODUCT, <<>>),
      Element(PRODUCT, <<Child(NAME, PyStr(<<"a">>))>>),
      Element(PRODUCT, <<Child(NAME, PyStr(<<"a", "\n", "b">>)), Child(PRICE, PyNone)>>),
      Element(PRODUCT, <<Child(NAME, PyStr(<<"a">>)), Child(NAME, PyStr(<<"\"">>))>>),
      Element(<<"s", "h", "o", "p">>, <<Child(NAME, PyStr(<<"a">>))>>) }

\* What ET.parse(xml_path) meets: no file, a file that is not well-formed
\* XML, or a document with these elements under its root.
CatalogFiles ==
    { [kind |-> "missing", root |-> <<>>], [kind |-> "malformed", root |-> <<>>] }
        \cup { [kind |-> "xml", root |-> r] : r \in SeqUpTo(RootElems, MaxProducts) }

NoFile == [kind |-> "none", root |-> <<>>]

IsProduct(e) == e.tag = PRODUCT

\* root.findall('product'): the children of the root with that tag, in order.
FindAll(root) == SelectSeq(root, IsProduct)

\* product_data[child.tag] = child.text for each child, in order.
RECURSIVE ProductData(_, _)
ProductData(children, d) ==
    IF children = <<>> THEN d
    ELSE ProductData(Tail(children), DictSet(d, Head(children).tag, Head(children).text))

\* Mutation of the escaping: the characters are written as they are.
EscapeRaw(chars) == chars

\* json.dumps(s): quotation mark, backslash and newline are escaped.
RECURSIVE Escape(_)
Escape(chars) ==
    IF chars = <<>> THEN <<>>
    ELSE (CASE Head(chars) = "\n" -> <<"\\", "n">>
            [] Head(chars) = "\"" -> <<"\\", "\"">>
            [] Head(chars) = "\\" -> <<"\\", "\\">>
            [] OTHER -> <<Head(chars)>>) \o Escape(Tail(chars))

Quoted(chars) == <<"\"">> \o Escape(chars) \o <<"\"">>

\* json.dumps(item, ensure_ascii=False) of None, a str or a dict.
RECURSIVE Dumps(_)
Dumps(v) ==
    CASE v.t = "none" -> <<"n", "u", "l", "l">>
      [] v.t = "str"  -> Quoted(v.s)
      [] v.t = "dict" ->
           <<"{">> \o Join([j \in 1..Len(v.l) |->
                               Quoted(v.l[j].k) \o <<":", " ">> \o Dumps(v.l[j].v)],
                           <<",", " ">>) \o <<"}">>
      [] OTHER -> <<>>

\* {"index": {"_index": OPENSEARCH_INDEX_NAME}}
IndexAction ==
    PyDict(<<Entry(<<"i", "n", "d", "e", "x">>,
                   PyDict(<<Entry(<<"_", "i", "n", "d", "e", "x">>, PyStr(OPENSEARCH_INDEX_NAME))>>))>>)

\* The loop over the products: one action and one document per product.
RECURSIVE BulkActions(_)
BulkActions(prods) ==
    IF prods = <<>> THEN <<>>
    ELSE <<IndexAction, ProductData(Head(prods).children, PyDict(<<>>))>>
            \o BulkActions(Tail(prods))

\* "\n".join(bulk_body_lines) + "\n"
BulkBody(actions) ==
    Join([j \in 1..Len(actions) |-> Dumps(actions[j])], <<"\n">>) \o <<"\n">>


\* ------------------------------------------------ the service, as the provisioner
\* meets it.  0 stands for a network-level failure
\* (requests.exceptions.RequestException); any other number is the status of
\* the HTTP answer.
NetFail == 0

\* GET /: not reachable, up, or answering but not ready.
PollOutcomes == {NetFail, 200, 503}

\* PUT /catalog_products: OpenSearch creates an index that does not exist
\* (200) and refuses to create one that exists (400,
\* resource_already_exists_exception); it may also fail.
CreateOutcomes(exists) == IF exists THEN {NetFail, 400} ELSE {NetFail, 200, 503}

\* POST /_bulk and POST /catalog_products/_refresh.
BulkOutcomes == {NetFail, 200, 400, 503}
RefreshOutcomes == {NetFail, 200, 503}

\* ------------------------------------------------------ setup_elasticsearch.py


Request(kind, status, body) == [kind |-> kind, status |-> status, body |-> body]

ProvInit ==
    /\ ppc = "poll"
    /\ polls = 0
    /\ slept = 0
    /\ last_poll = NetFail
    /\ waited = "none"
    /\ index_exists = FALSE
    /\ created = "none"
    /\ catalog = NoFile
    /\ bulk_actions = <<>>
    /\ loaded = "none"
    /\ reqs = <<>>
    /\ errors = <<>>
    /\ exit_status = -1
    /\ runs = 1
    /\ create_log = <<>>

ProvIdle ==
    /\ ppc = "idle"
    /\ polls = 0
    /\ slept = 0
    /\ last_poll = NetFail
    /\ waited = "none"
    /\ index_exists = FALSE
    /\ created = "none"
    /\ catalog = NoFile
    /\ bulk_actions = <<>>
    /\ loaded = "none"
    /\ reqs = <<>>
    /\ errors = <<>>
    /\ exit_status = -1
    /\ runs = 1
    /\ create_log = <<>>

\* Mutation of the readiness test: any HTTP answer counts as ready.
ReadyAnyAnswer(o) == o # NetFail

\* wait_for_opensearch: response.status_code == 200
Ready(o) == o = 200

\* wait_for_opensearch, one requests.get of range(120): a 200 returns True,
\* anything else (an answer or a network-level failure) goes to the sleep.
Poll ==
    /\ ppc = "poll"
    /\ polls < MaxAttempts
    /\ \E o \in PollOutcomes :
         /\ polls' = polls + 1
         /\ last_poll' = o
         /\ IF Ready(o)
            THEN waited' = "True" /\ ppc' = "waited"
            ELSE waited' = waited /\ ppc' = "sleep"
    /\ UNCHANGED <<slept, index_exists, created, catalog, bulk_actions, loaded,
                   reqs, errors, exit_status, runs, create_log>>
    /\ UNCHANGED <<evalVars, searchVars>>

\* time.sleep(5), then the next pass of the loop; after the last pass the
\* error is logged and False is returned.
Sleep ==
    /\ ppc = "sleep"
    /\ slept' = slept + SleepSeconds
    /\ IF polls = MaxAttempts
       THEN /\ waited' = "False"
            /\ errors' = Append(errors, "wait")
            /\ ppc' = "waited"
       ELSE /\ ppc' = "poll"
            /\ UNCHANGED <<waited, errors>>
    /\ UNCHANGED <<polls, last_poll, index_exists, created, catalog,
                   bulk_actions, loaded, reqs, exit_status, runs, create_log>>
    /\ UNCHANGED <<evalVars, searchVars>>

\* __main__: "if not wait_for_opensearch(): exit(1)".  The call has
\* returned and its locals are gone.
AfterWait ==
    /\ ppc = "waited"
    /\ IF waited = "True"
       THEN ppc' = "create" /\ UNCHANGED exit_status
       ELSE ppc' = "exit" /\ exit_status' = 1
    /\ polls' = 0
    /\ slept' = 0
    /\ last_poll' = NetFail
    /\ UNCHANGED <<waited, index_exists, created, catalog, bulk_actions, loaded,
                   reqs, errors, runs, create_log>>
    /\ UNCHANGED <<evalVars, searchVars>>

\* Mutation of create_index: every answer counts as success.
CreatedAlways(o) == TRUE

\* create_index: response.status_code in [200, 201]
Created(o) == o \in {200, 201}

\* create_index, called by __main__: requests.put is not guarded, so a
\* network-level failure ends the script with a traceback (status 1).
CreateIndex ==
    /\ ppc = "create"
    /\ \E o \in CreateOutcomes(index_exists) :
         /\ reqs' = Append(reqs, Request("create", o, <<>>))
         /\ index_exists' = (index_exists \/ o = 200)
         /\ IF o = NetFail
            THEN /\ created' = "raised"
                 /\ errors' = Append(errors, "traceback")
                 /\ exit_status' = 1
                 /\ ppc' = "exit"
            ELSE IF Created(o)
            THEN /\ created' = "True"
                 /\ ppc' = "load"
                 /\ UNCHANGED <<errors, exit_status>>
            ELSE /\ created' = "False"
                 /\ errors' = Append(errors, "create")
                 /\ exit_status' = 1
                 /\ ppc' = "exit"
         /\ create_log' = Append(create_log,
                [existed |-> index_exists, status |-> o, result |-> created'])
    /\ UNCHANGED <<polls, slept, last_poll, waited, catalog, bulk_actions,
                   loaded, runs>>
    /\ UNCHANGED <<evalVars, searchVars>>

\* load_catalog_to_opensearch up to "if bulk_actions:": the file is parsed
\* and the actions are built.  A missing or malformed file returns False; an
\* empty bulk_actions falls off the end of the function, which returns None;
\* __main__ calls exit(1) for either.
ParseCatalog ==
    /\ ppc = "load"
    /\ \E f \in CatalogFiles :
         /\ catalog' = f
         /\ IF f.kind # "xml"
            THEN /\ loaded' = "False"
                 /\ errors' = Append(errors, f.kind)
                 /\ exit_status' = 1
                 /\ ppc' = "exit"
                 /\ UNCHANGED bulk_actions
            ELSE /\ bulk_actions' = BulkActions(FindAll(f.root))
                 /\ IF bulk_actions' = <<>>
                    THEN /\ loaded' = "None"
                         /\ exit_status' = 1
                         /\ ppc' = "exit"
                         /\ UNCHANGED errors
                    ELSE /\ ppc' = "bulk"
                         /\ UNCHANGED <<loaded, errors, exit_status>>
    /\ UNCHANGED <<polls, slept, last_poll, waited, index_exists, created, reqs,
                   runs, create_log>>
    /\ UNCHANGED <<evalVars, searchVars>>

\* Mutation of the bulk test: every answer counts as success.
BulkOkAlways(o) == o # NetFail

\* The bulk request: response.status_code == 200
BulkOk(o) == o = 200

\* requests.post(bulk_url, data=bulk_body): not guarded either.
BulkRequest ==
    /\ ppc = "bulk"
    /\ \E o \in BulkOutcomes :
         /\ reqs' = Append(reqs, Request("bulk", o, BulkBody(bulk_actions)))
         /\ IF o = NetFail
            THEN /\ loaded' = "raised"
                 /\ errors' = Append(errors, "traceback")
                 /\ exit_status' = 1
                 /\ ppc' = "exit"
            ELSE IF BulkOk(o)
            THEN /\ ppc' = "refresh"
                 /\ UNCHANGED <<loaded, errors, exit_status>>
            ELSE /\ loaded' = "False"
                 /\ errors' = Append(errors, "bulk")
                 /\ exit_status' = 1
                 /\ ppc' = "exit"
    /\ UNCHANGED <<polls, slept, last_poll, waited, index_exists, created,
                   catalog, bulk_actions, runs, create_log>>
    /\ UNCHANGED <<evalVars, searchVars>>

\* requests.post(refresh_url): its status is not looked at; True is
\* returned and __main__ runs to its end (status 0).
Refresh ==
    /\ ppc = "refresh"
    /\ \E o \in RefreshOutcomes :
         /\ reqs' = Append(reqs, Request("refresh", o, <<>>))
         /\ IF o = NetFail
            THEN /\ loaded' = "raised"
                 /\ errors' = Append(errors, "traceback")
                 /\ exit_status' = 1
            ELSE /\ loaded' = "True"
                 /\ exit_status' = 0
                 /\ UNCHANGED errors
         /\ ppc' = "exit"
    /\ UNCHANGED <<polls, slept, last_poll, waited, index_exists, created,
                   catalog, bulk_actions, runs, create_log>>
    /\ UNCHANGED <<evalVars, searchVars>>

\* The script is run again against the same service: a new process, the
\* service keeps its index.
Rerun ==
    /\ ppc = "exit"
    /\ runs < MaxRuns
    /\ runs' = runs + 1
    /\ ppc' = "poll"
    /\ polls' = 0
    /\ slept' = 0
    /\ last_poll' = NetFail
    /\ waited' = "none"
    /\ created' = "none"
    /\ catalog' = NoFile
    /\ bulk_actions' = <<>>
    /\ loaded' = "none"
    /\ reqs' = <<>>
    /\ errors' = <<>>
    /\ exit_status' = -1
    /\ UNCHANGED <<index_exists, create_log>>
    /\ UNCHANGED <<evalVars, searchVars>>

\* ------------------------------------------------------------- specifications
EvalIdle ==
    /\ pc = "idle"
    /\ header = <<>>
    /\ f_in = <<>>
    /\ f_out = <<>>
    /\ calls = <<>>
    /\ row = NoRow
    /\ results = <<>>
    /\ now = 0
    /\ start_time = 0
    /\ end_time = 0
    /\ exc = ""

\* search_engine.py run as a script: run_evaluation with the OpenSearch engine.
Init == EvalInit /\ SearchIdle /\ ProvIdle
Next == OpenFiles \/ Iteration \/ EndOfFile
Spec == Init /\ [][Next]_vars

\* search() called once, for each prefix, top_k and answer of the service.
InitSearch == SearchInit /\ EvalIdle /\ ProvIdle
NextSearch == SearchCall
SpecSearch == InitSearch /\ [][NextSearch]_vars

\* setup_elasticsearch.py run as a script, MaxRuns times.
InitProv == ProvInit /\ EvalIdle /\ SearchIdle
NextProv == Poll \/ Sleep \/ AfterWait \/ CreateIndex \/ ParseCatalog \/ BulkRequest
              \/ Refresh \/ Rerun
SpecProv == InitProv /\ [][NextProv]_vars

\* wait_for_opensearch called on its own.  Every request is answered or
\* fails and every sleep ends, so a step that can be taken is taken.
NextWait == Poll \/ Sleep
SpecWait == InitProv /\ [][NextWait]_vars /\ WF_vars(NextWait)


\* ------------------------------------------------------ claims: run_evaluation
RunEnded == pc \in {"done", "raised"}

CountChar(chars, c) == Cardinality({j \in 1..Len(chars) : chars[j] = c})

\* The number of "|"-separated names in a top_3 value.
NameCount(chars) == IF chars = <<>> THEN 0 ELSE CountChar(chars, "|") + 1

\* C1: when run_evaluation has ended, the output file holds the header and
\* exactly one data row per input row, the i-th output row carries the i-th
\* input row's query, site, type and notes unchanged, and exactly one
\* search(query, top_k=3) call was made per input row, in input order.
C1_OneRowPerInputRow ==
    /\ Len(calls) = Len(f_in)
    /\ \A i \in 1..Len(calls) :
         calls[i].prefix = f_in[i].query /\ calls[i].top_k = 3
    /\ RunEnded =>
         /\ header = fieldnames
         /\ Len(f_out) = Len(f_in)
         /\ \A i \in 1..Len(f_out) :
              /\ f_out[i].query = f_in[i].query
              /\ f_out[i].site = f_in[i].site
              /\ f_out[i].type = f_in[i].type
              /\ f_out[i].notes = f_in[i].notes

\* C2: in every output row top_3 holds at most 3 names, and never more
\* names than the search call of that row returned.
C2_AtMostThreeNames ==
    \A i \in 1..Len(f_out) :
        /\ NameCount(f_out[i].top_3) <= 3
        /\ NameCount(f_out[i].top_3) <= calls[i].returned

\* A latency_ms value as "{:.2f}" writes a number that is not negative:
\* digits, a point, two digits.
IsDigit(c) == \E n \in 0..9 : c = Digit(n)

NonNegative2f(chars) ==
    /\ Len(chars) >= 4
    /\ chars[Len(chars) - 2] = "."
    /\ \A j \in 1..Len(chars) : j # Len(chars) - 2 => IsDigit(chars[j])

WellFormedBody(b) ==
    /\ b.t = "dict"
    /\ DictGet(b, "hits", PyNone).t = "dict"
    /\ DictGet(DictGet(b, "hits", PyNone), "hits", PyNone).t = "list"
    /\ LET hs == DictGet(DictGet(b, "hits", PyNone), "hits", PyNone).l
       IN  \A j \in 1..Len(hs) :
             hs[j].t = "dict" /\ DictGet(hs[j], "_source", PyNone).t = "dict"

\* C3: search never raises; a transport error, a 4xx/5xx status or a
\* malformed body yields the empty list; every element of a returned list is
\* a result record.
C3_SearchNeverFails ==
    /\ spc # "raised"
    /\ spc = "returned" =>
         /\ (\/ response.kind = "neterr"
             \/ response.status >= 400
             \/ ~WellFormedBody(response.body)) => products = <<>>
         /\ \A j \in 1..Len(products) : products[j].t = "dict"

\* ------------------------------------------------------------ claims: provisioner
ReqKinds == [j \in 1..Len(reqs) |-> reqs[j].kind]

IsPrefixOf(a, b) == Len(a) <= Len(b) /\ \A j \in 1..Len(a) : a[j] = b[j]

BulkReqs == SelectSeq(reqs, LAMBDA r : r.kind = "bulk")
RefreshReqs == SelectSeq(reqs, LAMBDA r : r.kind = "refresh")

\* The product elements of the parsed catalog, in catalog order.
Products == FindAll(catalog.root)

\* load_catalog_to_opensearch has ended (returned or raised).
LoadEnded == loaded # "none"

\* The lines of a payload: the text before each "\n".
NewlinesIn(chars) == {j \in 1..Len(chars) : chars[j] = "\n"}

NthNewline(chars, n) ==
    CHOOSE p \in NewlinesIn(chars) :
        Cardinality({q \in NewlinesIn(chars) : q <= p}) = n

Lines(chars) ==
    [n \in 1..Cardinality(NewlinesIn(chars)) |->
        SubSeq(chars,
               IF n = 1 THEN 1 ELSE NthNewline(chars, n - 1) + 1,
               NthNewline(chars, n) - 1)]

\* The payload is 2*P lines, each ended by "\n": for the i-th product the
\* index action, then the document of its child tags and texts.
TwoLinesPerProduct(body, prods) ==
    LET lines == Lines(body) IN
    /\ body # <<>> /\ body[Len(body)] = "\n"
    /\ Len(lines) = 2 * Len(prods)
    /\ \A i \in 1..Len(prods) :
         /\ lines[2 * i - 1] = Dumps(IndexAction)
         /\ lines[2 * i] = Dumps(ProductData(prods[i].children, PyDict(<<>>)))

\* C5: a create_index call that finds the index already there, or follows a
\* call that succeeded, succeeds.
C5_CreateIdempotent ==
    \A i \in 1..Len(create_log) :
        /\ (create_log[i].existed /\ create_log[i].status # NetFail)
              => create_log[i].result = "True"
        /\ (i > 1 /\ create_log[i - 1].result = "True"
                  /\ create_log[i].status # NetFail)
              => create_log[i].result = "True"

\* C6 as stated: for a well-formed catalog with P >= 0 products exactly one
\* bulk payload is submitted, of 2*P lines in catalog order.
C6_OneBulkPayload ==
    (LoadEnded /\ catalog.kind = "xml") =>
        /\ Len(BulkReqs) = 1
        /\ TwoLinesPerProduct(BulkReqs[1].body, Products)

\* C6 as amended: with P >= 1 products exactly one bulk payload is
\* submitted, of 2*P lines in catalog order; with no product none is.
C6_OneBulkPayloadIfProducts ==
    /\ Len(BulkReqs) <= 1
    /\ \A j \in 1..Len(BulkReqs) :
         Products # <<>> /\ TwoLinesPerProduct(BulkReqs[j].body, Products)
    /\ (LoadEnded /\ catalog.kind = "xml") =>
         Len(BulkReqs) = (IF Products = <<>> THEN 0 ELSE 1)

C6_Witness ==
    /\ loaded = "True"
    /\ Len(Products) = 2
    /\ \E i \in 1..2 : Len(Products[i].children) = 2
    /\ Len(Lines(BulkReqs[1].body)) = 4

NoProductNoRequest ==
    (LoadEnded /\ catalog.kind = "xml" /\ Products = <<>>) =>
        /\ BulkReqs = <<>> /\ RefreshReqs = <<>>
        /\ loaded = "None"
        /\ ppc = "exit" /\ exit_status = 1

\* C10 as stated: on a well-formed catalog with no product element
\* load_catalog_to_opensearch issues no bulk and no refresh request and
\* returns None, so the script exits with status 1 with no error logged; with
\* at least one product the function returns True exactly when the bulk
\* request answered 200.
C10_TrueIffBulk200 ==
    /\ NoProductNoRequest
    /\ (LoadEnded /\ catalog.kind = "xml" /\ Products # <<>>) =>
         (loaded = "True" <=> (Len(BulkReqs) = 1 /\ BulkReqs[1].status = 200))

\* C10 as amended: on a well-formed catalog with no product element
\* load_catalog_to_opensearch issues no bulk and no refresh request and
\* returns None, so the script exits with status 1 with no error logged; with
\* at least one product the function returns True exactly when the bulk
\* request answered 200 and the refresh request after it did not fail at
\* network level.
C10_TrueIffBulk200AndRefreshAnswered ==
    /\ NoProductNoRequest
    /\ (LoadEnded /\ catalog.kind = "xml" /\ Products # <<>>) =>
         (loaded = "True" <=>
             /\ Len(BulkReqs) = 1 /\ BulkReqs[1].status = 200
             /\ Len(RefreshReqs) = 1 /\ RefreshReqs[1].status # NetFail)

C10_Witness ==
    /\ catalog.kind = "xml" /\ Len(catalog.root) = 1 /\ Products = <<>>
    /\ loaded = "None"
    /\ exit_status = 1
    /\ errors = <<>>

\* ---------------------------------------------------- claims: wait_for_opensearch
C8_WaitSafe ==
    /\ polls <= 120
    /\ waited \in {"none", "True", "False"}
    /\ ppc = "poll" => (waited = "none" /\ slept = 5 * polls)
    /\ ppc = "sleep" => (waited = "none" /\ last_poll # 200 /\ slept = 5 * (polls - 1))
    /\ waited = "True" => (last_poll = 200 /\ slept = 5 * (polls - 1) /\ ppc = "waited")
    /\ waited = "False" => (last_poll # 200 /\ polls = 120 /\ slept = 5 * 120)
    /\ (waited = "none" /\ polls = 120) => (ppc = "sleep" /\ last_poll # 200)

\* C8: wait_for_opensearch ends after at most 120 polls; it returns True at
\* the first poll answered 200 and polls no more; a poll that fails or is
\* answered otherwise is followed by a sleep of 5 s; it returns False
\* exactly when none of 120 polls was answered 200; it never raises.
C8_WaitTerminates == []C8_WaitSafe /\ <>(waited \in {"True", "False"})

C8_Witness == waited = "True" /\ polls = 120 /\ slept = 595

=============================================================================
